---- MODULE Spec2Model ----
(***************************************************************************)
(* The order-submission flow of the Trading API SDK (src/main.py,          *)
(* src/database.py, src/models.py): request validation, instrument lookup, *)
(* holdings check, order creation, simulated execution, trade recording    *)
(* and the portfolio ledger.                                               *)
(*                                                                         *)
(* Numbers.  Every price is an integer number of thousandths of a rupee    *)
(* (2450.50 is 2450500), so a limit price may carry a third decimal.  The  *)
(* float arithmetic inside simulate_order_execution is carried exactly in  *)
(* units of 1e-5 rupee ("fine" units) and round(x, 2) maps a fine value to *)
(* the nearest multiple of 0.01.  A holding's averagePrice is the exact    *)
(* fraction num/den.  Order.createdAt and Trade.tradeId are not read by    *)
(* any operation and are left out of the records.                          *)
(***************************************************************************)
EXTENDS Integers, Sequences, FiniteSets, TLC

\* Bounds of the model.
MaxOrders == 2      \* orders accepted in one run
MaxQty    == 6      \* largest requested quantity
MaxTrades == 4      \* trades on the ledger when it is listed
MaxTime   == 3      \* clock readings of the trades listed

\* Python's None in an Optional[float] / Optional[datetime] field.
None == -1

Tasks == {1, 2}                      \* request coroutines on the event loop
Quantities == {MaxQty - 1, MaxQty}   \* valid quantities a request carries
\* random.uniform(-0.1, 0.1), in thousandths: the two ends of the range
Variations == {-100, 100}
\* limit prices a request carries (around RELIANCE's 2450.50 and TCS's 3450.75)
LimitPrices == {2400000, 2449004, 2450500, 2450506, 3500000}

\* ------------------------------------------------------------------------
\* Instrument catalog (database.py, _initialize_sample_data)

lastTradedPrice ==
    [ RELIANCE   |-> 2450500, TCS      |-> 3450750, INFY |-> 1450250,
      HDFCBANK   |-> 1650000, ICICIBANK |-> 950500, BHARTIARTL |-> 1050000,
      SBIN       |-> 550250,  WIPRO    |-> 450750 ]

\* db.instruments: keyed by f"{symbol}_{exchange}"
instruments == { <<s, "NSE">> : s \in DOMAIN lastTradedPrice }

\* a plausible slip: the lookup goes by symbol alone
get_instrument_by_symbol(symbol, exchange) ==
    IF symbol \in DOMAIN lastTradedPrice
    THEN [symbol |-> symbol, exchange |-> exchange,
          lastTradedPrice |-> lastTradedPrice[symbol]]
    ELSE [symbol |-> "", exchange |-> "", lastTradedPrice |-> None]

get_instrument(symbol, exchange) ==
    IF <<symbol, exchange>> \in instruments
    THEN [symbol |-> symbol, exchange |-> exchange,
          lastTradedPrice |-> lastTradedPrice[symbol]]
    ELSE [symbol |-> "", exchange |-> "", lastTradedPrice |-> None]

InstrumentFound(i) == i.lastTradedPrice # None

\* ------------------------------------------------------------------------
\* Float arithmetic of simulate_order_execution, exact in fine units

Min(a, b) == IF a <= b THEN a ELSE b
Max(a, b) == IF a >= b THEN a ELSE b

\* a price (thousandths) as a fine value
Fine(p) == p * 100

\* ltp * (permille / 1000) as a fine value; catalog prices have 2 decimals,
\* so ltp \div 10 is exact
Scaled(ltp, permille) == (ltp \div 10) * permille

\* round(x, 2): the outcomes for a fine value x, as prices.  A decimal tie
\* (x.xx5) is not an exact binary float, so the build rounds it either way.
Round2(x) ==
    LET q == x \div 1000
        r == x % 1000
    IN  IF r < 500 THEN {q * 10}
        ELSE IF r > 500 THEN {(q + 1) * 10}
        ELSE {q * 10, (q + 1) * 10}

\* Python truthiness of an Optional[float]
Truthy(v) == v # None /\ v # 0

\* ------------------------------------------------------------------------
\* models.py: CreateOrderRequest

\* @validator('price'): run only for a price the request supplies
validate_price_for_limit_order(v, orderStyle) ==
    ~(orderStyle = "LIMIT" /\ (v = None \/ v <= 0))

\* Field(..., gt=0) on quantity, Field(None, gt=0) on price, then the validator
Validate(req) ==
    /\ req.quantity > 0
    /\ req.price # None =>
         /\ req.price > 0
         /\ validate_price_for_limit_order(req.price, req.orderStyle)

\* ------------------------------------------------------------------------
\* main.py: simulate_order_execution.  The set of orders it can return for
\* the variation drawn (thousandths) and the clock reading now.

\* a plausible slip: the fill leaves the timestamp unset
ExecutedWithoutTimestamp(order, fine, now) ==
    { [order EXCEPT !.status = "EXECUTED", !.executedPrice = p] :
        p \in Round2(fine) }

Executed(order, fine, now) ==
    { [order EXCEPT !.status = "EXECUTED", !.executedAt = now,
                    !.executedPrice = p] : p \in Round2(fine) }

\* a plausible slip: a market order fills only at or above the reference
MarketFillAboveOnly(order, ltp, variation, now) ==
    IF variation >= 0
    THEN Executed(order, Scaled(ltp, 1000 + variation), now)
    ELSE {order}

\* lines 139-149: MARKET
MarketFill(order, ltp, variation, now) ==
    Executed(order, Scaled(ltp, 1000 + variation), now)

\* a plausible slip: the favourable-price test uses the 0.1% band
LimitBuyFillBandTest(order, ltp, now) ==
    IF Truthy(order.price) /\ Fine(order.price) >= Scaled(ltp, 999)
    THEN Executed(order, Min(Fine(order.price), Scaled(ltp, 1001)), now)
    ELSE {[order EXCEPT !.status = "PLACED"]}

\* a plausible slip: the unfavourable branch assigns the wrong status
LimitBuyFillWrongStatus(order, ltp, now) ==
    IF Truthy(order.price) /\ order.price >= ltp
    THEN Executed(order, Min(Fine(order.price), Scaled(ltp, 1001)), now)
    ELSE {[order EXCEPT !.status = "NEW"]}

\* lines 153-167: LIMIT BUY
LimitBuyFill(order, ltp, now) ==
    IF Truthy(order.price) /\ order.price >= ltp
    THEN Executed(order, Min(Fine(order.price), Scaled(ltp, 1001)), now)
    ELSE {[order EXCEPT !.status = "PLACED"]}

\* a plausible slip: min where the sell price needs max
LimitSellFillMin(order, ltp, now) ==
    IF Truthy(order.price) /\ order.price <= ltp
    THEN Executed(order, Min(Fine(order.price), Scaled(ltp, 999)), now)
    ELSE {[order EXCEPT !.status = "PLACED"]}

\* lines 169-183: LIMIT SELL
LimitSellFill(order, ltp, now) ==
    IF Truthy(order.price) /\ order.price <= ltp
    THEN Executed(order, Max(Fine(order.price), Scaled(ltp, 999)), now)
    ELSE {[order EXCEPT !.status = "PLACED"]}

simulate_order_execution(order, ltp, variation, now) ==
    IF order.orderStyle = "MARKET"
    THEN MarketFill(order, ltp, variation, now)
    ELSE IF order.orderType = "BUY"
    THEN LimitBuyFill(order, ltp, now)
    ELSE LimitSellFill(order, ltp, now)

\* ------------------------------------------------------------------------
\* database.py: the portfolio ledger.  pf is db.portfolio, a function from
\* the keys present to holdings.

\* a plausible slip: the deletion acts on a copy and the ledger keeps the key
RemoveFromCopy(pf, key) == pf

\* del self.portfolio[key]
Remove(pf, key) == [k \in DOMAIN pf \ {key} |-> pf[k]]

Holding(symbol, exchange, quantity, avgNum, avgDen) ==
    [symbol |-> symbol, exchange |-> exchange, quantity |-> quantity,
     averagePrice |-> [num |-> avgNum, den |-> avgDen],
     currentValue |->
        LET i == get_instrument(symbol, exchange)
        IN  quantity * i.lastTradedPrice]

\* holding.quantity * holding.averagePrice, with the quotient taken first:
\* the denominator of a stored average is 1 or the holding's quantity
HoldingCost(holding) ==
    LET num == holding.averagePrice.num
        den == holding.averagePrice.den
    IN  (holding.quantity \div den) * num
          + ((holding.quantity % den) * num) \div den

get_portfolio_holding(pf, symbol, exchange) ==
    IF <<symbol, exchange>> \in DOMAIN pf
    THEN pf[<<symbol, exchange>>].quantity
    ELSE 0

\* a plausible slip: the closed position is rewritten, not deleted
update_portfolio_keeps_zero(pf, symbol, exchange, quantity, price) ==
    LET key == <<symbol, exchange>>
    IN  IF key \in DOMAIN pf
        THEN LET holding == pf[key]
                 total_quantity == holding.quantity + quantity
                 total_cost == HoldingCost(holding) + quantity * price
             IN  IF total_quantity > 0
                 THEN [pf EXCEPT ![key] =
                         Holding(symbol, exchange, total_quantity,
                                 total_cost, total_quantity)]
                 ELSE [pf EXCEPT ![key] =
                         Holding(symbol, exchange, total_quantity, 0, 1)]
        ELSE IF quantity > 0
             THEN (key :> Holding(symbol, exchange, quantity, price, 1)) @@ pf
             ELSE pf

\* a plausible slip: a decrease keeps the average cost (cost-basis accounting)
update_portfolio_cost_basis(pf, symbol, exchange, quantity, price) ==
    LET key == <<symbol, exchange>>
    IN  IF key \in DOMAIN pf
        THEN LET holding == pf[key]
                 total_quantity == holding.quantity + quantity
                 total_cost == HoldingCost(holding) + quantity * price
             IN  IF total_quantity = 0
                 THEN Remove(pf, key)
                 ELSE IF total_quantity > 0 /\ quantity < 0
                 THEN [pf EXCEPT ![key] =
                         Holding(symbol, exchange, total_quantity,
                                 holding.averagePrice.num,
                                 holding.averagePrice.den)]
                 ELSE IF total_quantity > 0
                 THEN [pf EXCEPT ![key] =
                         Holding(symbol, exchange, total_quantity,
                                 total_cost, total_quantity)]
                 ELSE [pf EXCEPT ![key] =
                         Holding(symbol, exchange, total_quantity, 0, 1)]
        ELSE IF quantity > 0
             THEN (key :> Holding(symbol, exchange, quantity, price, 1)) @@ pf
             ELSE pf

\* a plausible slip: the new-holding branch lacks its quantity > 0 test
update_portfolio_creates_short(pf, symbol, exchange, quantity, price) ==
    LET key == <<symbol, exchange>>
    IN  IF key \in DOMAIN pf
        THEN LET holding == pf[key]
                 total_quantity == holding.quantity + quantity
                 total_cost == HoldingCost(holding) + quantity * price
             IN  IF total_quantity = 0
                 THEN Remove(pf, key)
                 ELSE IF total_quantity > 0
                 THEN [pf EXCEPT ![key] =
                         Holding(symbol, exchange, total_quantity,
                                 total_cost, total_quantity)]
                 ELSE [pf EXCEPT ![key] =
                         Holding(symbol, exchange, total_quantity, 0, 1)]
        ELSE (key :> Holding(symbol, exchange, quantity, price, 1)) @@ pf

\* database.py 121-160.  total_cost / total_quantity is kept as the fraction
\* total_cost over total_quantity; for a negative total the code stores 0.
update_portfolio(pf, symbol, exchange, quantity, price) ==
    LET key == <<symbol, exchange>>
    IN  IF key \in DOMAIN pf
        THEN LET holding == pf[key]
                 total_quantity == holding.quantity + quantity
                 total_cost == HoldingCost(holding) + quantity * price
             IN  IF total_quantity = 0
                 THEN Remove(pf, key)
                 ELSE IF total_quantity > 0
                 THEN [pf EXCEPT ![key] =
                         Holding(symbol, exchange, total_quantity,
                                 total_cost, total_quantity)]
                 ELSE [pf EXCEPT ![key] =
                         Holding(symbol, exchange, total_quantity, 0, 1)]
        ELSE IF quantity > 0
             THEN (key :> Holding(symbol, exchange, quantity, price, 1)) @@ pf
             ELSE pf

\* a plausible slip: the refresh marks the average to the market price too
RefreshValuesAndAverage(pf) ==
    [k \in DOMAIN pf |->
        Holding(pf[k].symbol, pf[k].exchange, pf[k].quantity,
                get_instrument(pf[k].symbol, pf[k].exchange).lastTradedPrice, 1)]

\* get_all_portfolio_holdings: refresh every currentValue, then list
RefreshValues(pf) ==
    [k \in DOMAIN pf |->
        Holding(pf[k].symbol, pf[k].exchange, pf[k].quantity,
                pf[k].averagePrice.num, pf[k].averagePrice.den)]

\* ------------------------------------------------------------------------
\* database.py: the trade ledger

\* a plausible slip: the ascending sort, reversed (equal keys swap places)
RECURSIVE SortedAscReversed(_)
SortedAscReversed(ts) ==
    IF ts = <<>> THEN <<>>
    ELSE LET top == CHOOSE i \in 1 .. Len(ts) :
                      /\ \A j \in 1 .. Len(ts) : ts[j].executedAt <= ts[i].executedAt
                      /\ \A j \in (i + 1) .. Len(ts) :
                            ts[j].executedAt < ts[i].executedAt
             rest == [k \in 1 .. (Len(ts) - 1) |->
                        IF k < top THEN ts[k] ELSE ts[k + 1]]
         IN  <<ts[top]>> \o SortedAscReversed(rest)

\* sorted(self.trades, key=executedAt, reverse=True): a stable sort, equal
\* keys keep their insertion order
RECURSIVE SortedDesc(_)
SortedDesc(ts) ==
    IF ts = <<>> THEN <<>>
    ELSE LET top == CHOOSE i \in 1 .. Len(ts) :
                      /\ \A j \in 1 .. Len(ts) : ts[j].executedAt <= ts[i].executedAt
                      /\ \A j \in 1 .. (i - 1) : ts[j].executedAt < ts[i].executedAt
             rest == [k \in 1 .. (Len(ts) - 1) |->
                        IF k < top THEN ts[k] ELSE ts[k + 1]]
         IN  <<ts[top]>> \o SortedDesc(rest)

get_all_trades(ts) == SortedDesc(ts)

Trade(order) ==
    [orderId |-> order.orderId, symbol |-> order.symbol,
     exchange |-> order.exchange, orderType |-> order.orderType,
     quantity |-> order.quantity, price |-> order.executedPrice,
     executedAt |-> order.executedAt]

\* ------------------------------------------------------------------------
\* State

VARIABLES
    heap,       \* the Order objects created so far, by reference 1, 2, ...
    orders,     \* db.orders: orderId -> reference of the stored Order object
    trades,     \* db.trades
    portfolio,  \* db.portfolio
    tasks,      \* per request coroutine: where it stands and its `order`
    response    \* the last HTTP response sent

vars == <<heap, orders, trades, portfolio, tasks, response>>

stores == <<heap, orders, trades, portfolio>>

Idle == [pc |-> "idle", order |-> 0]

NoResponse == [status |-> 0, error |-> ""]

Init ==
    /\ heap = <<>>
    /\ orders = <<>>
    /\ trades = <<>>
    /\ portfolio = <<>>
    /\ tasks = [t \in Tasks |-> Idle]
    /\ response = NoResponse

\* a plausible slip: an awaited call after each write to the stores
AwaitPointsBetweenWrites == {"place", "execute", "settle", "book"}

\* a plausible slip: the order is saved through an awaited call
AwaitPointsAfterCreate == {"place"}

\* The points of create_order at which the coroutine awaits and the event
\* loop may run another request: the body holds no await.
AwaitPoints == {}

\* The event loop runs t: no other coroutine is between two await points.
Runnable(t) ==
    /\ \A u \in Tasks \ {t} : tasks[u].pc \in AwaitPoints \cup {"idle"}
    /\ response = NoResponse

AllIdle == \A t \in Tasks : tasks[t].pc = "idle"

\* The event loop can start a handler: every coroutine in flight awaits,
\* and the previous response has left.
LoopFree ==
    /\ \A t \in Tasks : tasks[t].pc \in AwaitPoints \cup {"idle"}
    /\ response = NoResponse

\* A new request runs as the first coroutine not in use
IsFreeTask(t) ==
    /\ tasks[t].pc = "idle"
    /\ \A u \in Tasks : u < t => tasks[u].pc # "idle"

\* f"ORD{uuid.uuid4().hex[:8].upper()}": 32 random bits, so the identifier
\* is one already in the store or a new one (new ones are numbered in order)
NewOrderIds == DOMAIN orders \cup {Cardinality(DOMAIN orders) + 1}

\* The request bodies a client sends; a price of None is a body without the
\* price field.  A MARKET request carries no price, but for one BUY that
\* supplies the reference price, and a LIMIT request the larger quantity
\* here; the last two sets ask for instruments the catalog does not hold.
Requests ==
    { r \in [symbol : {"RELIANCE"}, exchange : {"NSE"},
             orderType : {"BUY", "SELL"}, orderStyle : {"MARKET", "LIMIT"},
             quantity : Quantities,
             price : LimitPrices \cup {None}] :
        /\ r.orderStyle = "MARKET" =>
              \/ r.price = None
              \/ /\ r.price = lastTradedPrice[r.symbol]
                 /\ r.orderType = "BUY" /\ r.quantity = MaxQty
        /\ r.orderStyle = "LIMIT" => r.quantity = MaxQty }
    \cup [symbol : {"INVALID"}, exchange : {"NSE"},
          orderType : {"BUY", "SELL"}, orderStyle : {"MARKET"},
          quantity : {MaxQty}, price : {None}]
    \cup [symbol : {"RELIANCE"}, exchange : {"BSE"},
          orderType : {"SELL"}, orderStyle : {"MARKET"},
          quantity : {MaxQty}, price : {None}]

\* Request bodies that CreateOrderRequest rejects: a quantity of 0, a
\* price of 0
InvalidRequests ==
    { r \in [symbol : {"RELIANCE"}, exchange : {"NSE"}, orderType : {"BUY"},
             orderStyle : {"MARKET", "LIMIT"}, quantity : {0, MaxQty},
             price : {0, None}] : ~Validate(r) }

\* a plausible slip: the write reaches every order carrying the identifier
MutateById(h, ref, o) ==
    [i \in DOMAIN h |-> IF h[i].orderId = o.orderId THEN o ELSE h[i]]

\* In-place assignment to the attributes of the Order object at ref
Mutate(h, ref, o) == [h EXCEPT ![ref] = o]

\* db.create_order / db.update_order: self.orders[order.orderId] = order
update_order(os, orderId, ref) == (orderId :> ref) @@ os

\* ------------------------------------------------------------------------
\* POST /api/v1/orders: create_order

\* the request fails validation before the handler runs (422)
RejectInvalid(t, req) ==
    /\ IsFreeTask(t) /\ LoopFree
    /\ ~Validate(req)
    /\ response' = [status |-> 422, error |-> "RequestValidationError"]
    /\ UNCHANGED <<heap, orders, trades, portfolio, tasks>>

\* a plausible slip: an off-by-one in the holdings comparison
InsufficientHoldingOffByOne(available_quantity, quantity) ==
    available_quantity + 1 < quantity

\* line 239
InsufficientHolding(available_quantity, quantity) ==
    available_quantity < quantity

\* a plausible slip: the holdings check stands before the instrument lookup
SubmitHoldingsFirst(t, req) ==
    /\ IsFreeTask(t) /\ LoopFree
    /\ Validate(req)
    /\ LET instrument == get_instrument(req.symbol, req.exchange)
           available_quantity ==
               get_portfolio_holding(portfolio, req.symbol, req.exchange)
       IN  IF req.orderType = "SELL"
              /\ InsufficientHolding(available_quantity, req.quantity)
           THEN /\ response' = [status |-> 400,
                                error |-> "InsufficientHoldingError",
                                symbol |-> req.symbol,
                                available |-> available_quantity,
                                requested |-> req.quantity]
                /\ UNCHANGED <<heap, orders, trades, portfolio, tasks>>
           ELSE IF ~InstrumentFound(instrument)
           THEN /\ response' = [status |-> 404,
                                error |-> "InstrumentNotFoundError",
                                symbol |-> req.symbol,
                                exchange |-> req.exchange]
                /\ UNCHANGED <<heap, orders, trades, portfolio, tasks>>
           ELSE /\ Len(heap) < MaxOrders
                /\ \E order_id \in NewOrderIds :
                     LET order == [orderId |-> order_id,
                                   symbol |-> req.symbol,
                                   exchange |-> req.exchange,
                                   orderType |-> req.orderType,
                                   orderStyle |-> req.orderStyle,
                                   quantity |-> req.quantity,
                                   price |-> req.price,
                                   status |-> "NEW",
                                   executedAt |-> None,
                                   executedPrice |-> None]
                         ref == Len(heap) + 1
                     IN  /\ heap' = Append(heap, order)
                         /\ orders' = update_order(orders, order_id, ref)
                         /\ tasks' = [tasks EXCEPT ![t] =
                                        [pc |-> "place", order |-> ref]]
                /\ response' = NoResponse
                /\ UNCHANGED <<trades, portfolio>>

\* lines 229-262: instrument lookup, holdings check, Order(status=NEW),
\* db.create_order
Submit(t, req) ==
    /\ IsFreeTask(t) /\ LoopFree
    /\ Validate(req)
    /\ LET instrument == get_instrument(req.symbol, req.exchange)
           available_quantity ==
               get_portfolio_holding(portfolio, req.symbol, req.exchange)
       IN  IF ~InstrumentFound(instrument)
           THEN /\ response' = [status |-> 404,
                                error |-> "InstrumentNotFoundError",
                                symbol |-> req.symbol,
                                exchange |-> req.exchange]
                /\ UNCHANGED <<heap, orders, trades, portfolio, tasks>>
           ELSE IF req.orderType = "SELL"
                   /\ InsufficientHolding(available_quantity, req.quantity)
           THEN /\ response' = [status |-> 400,
                                error |-> "InsufficientHoldingError",
                                symbol |-> req.symbol,
                                available |-> available_quantity,
                                requested |-> req.quantity]
                /\ UNCHANGED <<heap, orders, trades, portfolio, tasks>>
           ELSE /\ Len(heap) < MaxOrders
                /\ \E order_id \in NewOrderIds :
                     LET order == [orderId |-> order_id,
                                   symbol |-> req.symbol,
                                   exchange |-> req.exchange,
                                   orderType |-> req.orderType,
                                   orderStyle |-> req.orderStyle,
                                   quantity |-> req.quantity,
                                   price |-> req.price,
                                   status |-> "NEW",
                                   executedAt |-> None,
                                   executedPrice |-> None]
                         ref == Len(heap) + 1
                     IN  /\ heap' = Append(heap, order)
                         /\ orders' = update_order(orders, order_id, ref)
                         /\ tasks' = [tasks EXCEPT ![t] =
                                        [pc |-> "place", order |-> ref]]
                /\ response' = NoResponse
                /\ UNCHANGED <<trades, portfolio>>

\* lines 265-267: order.status = PLACED; db.update_order(order)
Place(t) ==
    /\ tasks[t].pc = "place" /\ Runnable(t)
    /\ LET ref == tasks[t].order
           order == [heap[ref] EXCEPT !.status = "PLACED"]
       IN  /\ heap' = Mutate(heap, ref, order)
           /\ orders' = update_order(orders, order.orderId, ref)
    /\ tasks' = [tasks EXCEPT ![t].pc = "execute"]
    /\ UNCHANGED <<trades, portfolio, response>>

\* lines 270-271: order = simulate_order_execution(order, instrument);
\* db.update_order(order)
Execute(t, variation, now) ==
    /\ tasks[t].pc = "execute" /\ Runnable(t)
    /\ LET ref == tasks[t].order
           ltp == get_instrument(heap[ref].symbol,
                                 heap[ref].exchange).lastTradedPrice
       IN  \E order \in simulate_order_execution(heap[ref], ltp,
                                                 variation, now) :
             /\ heap' = Mutate(heap, ref, order)
             /\ orders' = update_order(orders, order.orderId, ref)
    /\ tasks' = [tasks EXCEPT ![t].pc = "settle"]
    /\ UNCHANGED <<trades, portfolio, response>>

Created(order) == [status |-> 201, error |-> "", order |-> order]

\* lines 274-288: if the order executed, db.add_trade(trade); lines 300:
\* otherwise return the order
Settle(t) ==
    /\ tasks[t].pc = "settle" /\ Runnable(t)
    /\ LET order == heap[tasks[t].order]
       IN  IF order.status = "EXECUTED" /\ Truthy(order.executedPrice)
           THEN /\ trades' = Append(trades, Trade(order))
                /\ tasks' = [tasks EXCEPT ![t].pc = "book"]
                /\ UNCHANGED response
           ELSE /\ response' = Created(order)
                /\ tasks' = [tasks EXCEPT ![t] = Idle]
                /\ UNCHANGED trades
    /\ UNCHANGED <<heap, orders, portfolio>>

\* a plausible slip: the executed quantity is applied unsigned
BookUnsigned(t) ==
    /\ tasks[t].pc = "book" /\ Runnable(t)
    /\ LET order == heap[tasks[t].order]
       IN  /\ portfolio' = update_portfolio(portfolio, order.symbol,
                               order.exchange, order.quantity,
                               order.executedPrice)
           /\ response' = Created(order)
    /\ tasks' = [tasks EXCEPT ![t] = Idle]
    /\ UNCHANGED <<heap, orders, trades>>

\* lines 291-300: db.update_portfolio(...); return order
Book(t) ==
    /\ tasks[t].pc = "book" /\ Runnable(t)
    /\ LET order == heap[tasks[t].order]
           portfolio_quantity ==
               IF order.orderType = "BUY" THEN order.quantity
               ELSE 0 - order.quantity
       IN  /\ portfolio' = update_portfolio(portfolio, order.symbol,
                               order.exchange, portfolio_quantity,
                               order.executedPrice)
           /\ response' = Created(order)
    /\ tasks' = [tasks EXCEPT ![t] = Idle]
    /\ UNCHANGED <<heap, orders, trades>>

\* ------------------------------------------------------------------------
\* The read endpoints: each handler body runs without an await

\* a plausible slip: the handler lacks its `if not order` test
GetOrderStatusUnchecked(order_id) ==
    /\ LoopFree
    /\ response' =
         [status |-> 200, error |-> "",
          order |-> IF order_id \in DOMAIN orders
                    THEN heap[orders[order_id]]
                    ELSE [orderId |-> order_id, status |-> "NEW"]]
    /\ UNCHANGED <<heap, orders, trades, portfolio, tasks>>

\* GET /api/v1/orders/{order_id}
GetOrderStatus(order_id) ==
    /\ LoopFree
    /\ response' =
         IF order_id \in DOMAIN orders
         THEN [status |-> 200, error |-> "", order |-> heap[orders[order_id]]]
         ELSE [status |-> 404, error |-> "OrderNotFoundError",
               order_id |-> order_id]
    /\ UNCHANGED <<heap, orders, trades, portfolio, tasks>>

\* GET /api/v1/trades
GetTrades ==
    /\ LoopFree
    /\ response' = [status |-> 200, error |-> "",
                    trades |-> get_all_trades(trades)]
    /\ UNCHANGED <<heap, orders, trades, portfolio, tasks>>

\* GET /api/v1/portfolio
GetPortfolio ==
    /\ LoopFree
    /\ portfolio' = RefreshValues(portfolio)
    /\ response' = [status |-> 200, error |-> "",
                    holdings |-> portfolio']
    /\ UNCHANGED <<heap, orders, trades, tasks>>

\* The transport hands the response to the client
Deliver ==
    /\ response # NoResponse
    /\ response' = NoResponse
    /\ UNCHANGED <<heap, orders, trades, portfolio, tasks>>

\* The clock of this specification stands still: no claim checked under it
\* reads a timestamp's value.
Next ==
    \/ \E t \in Tasks, req \in InvalidRequests : RejectInvalid(t, req)
    \/ \E t \in Tasks, req \in Requests : Submit(t, req)
    \/ \E t \in Tasks : Place(t)
    \/ \E t \in Tasks, variation \in Variations : Execute(t, variation, 1)
    \/ \E t \in Tasks : Settle(t)
    \/ \E t \in Tasks : Book(t)
    \/ \E order_id \in NewOrderIds : GetOrderStatus(order_id)
    \/ GetTrades
    \/ GetPortfolio
    \/ Deliver

Spec == Init /\ [][Next]_vars

\* ------------------------------------------------------------------------
\* The portfolio ledger called directly: db.update_portfolio is a public
\* method whose quantity argument is signed.  The ledger starts empty or
\* with one holding bought in a single fill, a direct call is applied to it,
\* and MARKET BUY requests run on the result.

\* the prices of a fill of RELIANCE at either end of the market variation
FillPrices == {2205450, 2695550}

\* signed quantities of a direct call, beyond the largest holding either way
FillQuantities == (0 - MaxQty - 1) .. (MaxQty + 1)

Ledgers ==
    {<<>>} \cup
    { (<<"RELIANCE", "NSE">> :> Holding("RELIANCE", "NSE", q, p, 1)) :
        q \in 1 .. MaxQty, p \in FillPrices }

LedgerInit ==
    /\ heap = <<>>
    /\ orders = <<>>
    /\ trades = <<>>
    /\ portfolio \in Ledgers
    /\ tasks = [t \in Tasks |-> Idle]
    /\ response = NoResponse

\* db.update_portfolio(symbol, exchange, quantity, price)
ApplyFill(symbol, exchange, quantity, price) ==
    /\ LoopFree
    /\ heap = <<>> /\ portfolio \in Ledgers
    /\ portfolio' = update_portfolio(portfolio, symbol, exchange,
                                     quantity, price)
    /\ UNCHANGED <<heap, orders, trades, tasks, response>>

LedgerRequests ==
    { r \in Requests : /\ InstrumentFound(get_instrument(r.symbol, r.exchange))
                       /\ r.orderType = "BUY" /\ r.orderStyle = "MARKET"
                       /\ r.quantity = MaxQty }

LedgerNext ==
    \/ \E quantity \in FillQuantities, price \in FillPrices :
          ApplyFill("RELIANCE", "NSE", quantity, price)
    \/ \E t \in Tasks, req \in LedgerRequests : Submit(t, req)
    \/ \E t \in Tasks : Place(t)
    \/ \E t \in Tasks, variation \in Variations : Execute(t, variation, 1)
    \/ \E t \in Tasks : Settle(t)
    \/ \E t \in Tasks : Book(t)
    \/ Deliver

LedgerSpec == LedgerInit /\ [][LedgerNext]_vars

\* ------------------------------------------------------------------------
\* The trade ledger listed: GET /api/v1/trades over a ledger whose trades
\* carry any clock readings (datetime.now() is the wall clock: it repeats a
\* value and steps back).  Trade i is the trade of the i-th order.

Times == 1 .. MaxTime

TradeLogs ==
    UNION { { [i \in 1 .. n |->
                [orderId |-> i, symbol |-> "RELIANCE", exchange |-> "NSE",
                 orderType |-> "BUY", quantity |-> MaxQty,
                 price |-> lastTradedPrice["RELIANCE"],
                 executedAt |-> stamps[i]]] :
              stamps \in [1 .. n -> Times] } : n \in 0 .. MaxTrades }

TradesInit ==
    /\ heap = <<>>
    /\ orders = <<>>
    /\ trades \in TradeLogs
    /\ portfolio = <<>>
    /\ tasks = [t \in Tasks |-> Idle]
    /\ response = NoResponse

TradesNext ==
    \/ GetTrades
    \/ Deliver

TradesSpec == TradesInit /\ [][TradesNext]_vars

\* ------------------------------------------------------------------------
\* Authentication: every endpoint depends on verify_auth, which FastAPI
\* resolves before it validates the body and before the handler runs.

\* f"Bearer {MOCK_AUTH_TOKEN}"
BearerToken == "Bearer mock_auth_token_12345"

\* Authorization headers of a request; "" is a request without the header
\* (Header(None))
NoHeader == ""

Headers ==
    {NoHeader, BearerToken, "Bearer mock_auth_token",
     "mock_auth_token_12345"}

\* a plausible slip: only the presence of the header is tested
verify_auth_present(authorization) ==
    authorization # NoHeader

\* main.py 65-72: TRUE when the dependency returns MOCK_USER_ID
verify_auth(authorization) ==
    ~(authorization = NoHeader
        \/ authorization # BearerToken)

\* HTTPException(status_code=401)
RejectUnauthorized ==
    /\ LoopFree
    /\ response' = [status |-> 401, error |-> "HTTPException"]
    /\ UNCHANGED <<heap, orders, trades, portfolio, tasks>>

AuthRequests ==
    { r \in Requests : /\ r.symbol = "RELIANCE" /\ r.exchange = "NSE"
                       /\ r.orderStyle = "MARKET" /\ r.price = None
                       /\ r.quantity = MaxQty }

\* POST /api/v1/orders with its header
PostOrder(t, authorization, req) ==
    IF verify_auth(authorization)
    THEN RejectInvalid(t, req) \/ Submit(t, req)
    ELSE IsFreeTask(t) /\ RejectUnauthorized

\* GET /api/v1/orders/{order_id}, /api/v1/trades, /api/v1/portfolio with
\* their header
GetWithHeader(authorization) ==
    IF verify_auth(authorization)
    THEN \/ \E order_id \in NewOrderIds : GetOrderStatus(order_id)
         \/ GetTrades
         \/ GetPortfolio
    ELSE RejectUnauthorized

AuthNext ==
    \/ \E t \in Tasks, authorization \in Headers,
          req \in AuthRequests \cup InvalidRequests :
            PostOrder(t, authorization, req)
    \/ \E authorization \in Headers : GetWithHeader(authorization)
    \/ \E t \in Tasks : Place(t)
    \/ \E t \in Tasks, variation \in Variations : Execute(t, variation, 1)
    \/ \E t \in Tasks : Settle(t)
    \/ \E t \in Tasks : Book(t)
    \/ Deliver

AuthSpec == Init /\ [][AuthNext]_vars

\* ------------------------------------------------------------------------
\* MARKET requests submitted together against one holding: the coroutines
\* of the requests share the event loop, which switches between them at
\* their await points only.

SellRequests ==
    { r \in Requests : /\ r.symbol = "RELIANCE" /\ r.exchange = "NSE"
                       /\ r.orderStyle = "MARKET" /\ r.price = None
                       /\ r.orderType = "BUY" => r.quantity = MaxQty }

SellNext ==
    \/ \E t \in Tasks, req \in SellRequests : Submit(t, req)
    \/ \E t \in Tasks : Place(t)
    \/ \E t \in Tasks, variation \in Variations : Execute(t, variation, 1)
    \/ \E t \in Tasks : Settle(t)
    \/ \E t \in Tasks : Book(t)
    \/ Deliver

SellSpec == LedgerInit /\ [][SellNext]_vars

\* ------------------------------------------------------------------------
\* The execution step of create_order taken apart: line 270 calls the
\* engine, which assigns to the attributes of the Order object it is given
\* (the object db.orders holds), and line 271 calls db.update_order.

\* line 270: order = simulate_order_execution(order, instrument)
Decide(t, variation, now) ==
    /\ tasks[t].pc = "execute" /\ Runnable(t)
    /\ LET ref == tasks[t].order
           ltp == get_instrument(heap[ref].symbol,
                                 heap[ref].exchange).lastTradedPrice
       IN  \E order \in simulate_order_execution(heap[ref], ltp,
                                                 variation, now) :
             heap' = Mutate(heap, ref, order)
    /\ tasks' = [tasks EXCEPT ![t].pc = "update"]
    /\ UNCHANGED <<orders, trades, portfolio, response>>

\* line 271: db.update_order(order)
Update(t) ==
    /\ tasks[t].pc = "update" /\ Runnable(t)
    /\ orders' = update_order(orders, heap[tasks[t].order].orderId,
                              tasks[t].order)
    /\ tasks' = [tasks EXCEPT ![t].pc = "settle"]
    /\ UNCHANGED <<heap, trades, portfolio, response>>

EngineRequests ==
    { r \in Requests : /\ r.symbol = "RELIANCE" /\ r.exchange = "NSE"
                       /\ r.quantity = MaxQty
                       /\ r.price \in {None, 2400000, 3500000} }

EngineNext ==
    \/ \E t \in Tasks, req \in EngineRequests : Submit(t, req)
    \/ \E t \in Tasks : Place(t)
    \/ \E t \in Tasks, variation \in Variations : Decide(t, variation, 1)
    \/ \E t \in Tasks : Update(t)
    \/ \E t \in Tasks : Settle(t)
    \/ \E t \in Tasks : Book(t)
    \/ \E order_id \in NewOrderIds : GetOrderStatus(order_id)
    \/ Deliver

EngineSpec == Init /\ [][EngineNext]_vars

\* ------------------------------------------------------------------------
\* Properties

InFlight(ref) == \E t \in Tasks : tasks[t].pc # "idle" /\ tasks[t].order = ref

\* the request that created the order at ref has returned
Done(ref) == ref \in 1 .. Len(heap) /\ ~InFlight(ref)

Ltp(o) == lastTradedPrice[o.symbol]

HoldingOf(req) == get_portfolio_holding(portfolio, req.symbol, req.exchange)

\* BUY quantities minus SELL quantities of the trades of one instrument
RECURSIVE NetTraded(_, _)
NetTraded(ts, key) ==
    IF ts = <<>> THEN 0
    ELSE LET tr == ts[Len(ts)]
             q == IF <<tr.symbol, tr.exchange>> # key THEN 0
                  ELSE IF tr.orderType = "BUY" THEN tr.quantity
                  ELSE 0 - tr.quantity
         IN  q + NetTraded(SubSeq(ts, 1, Len(ts) - 1), key)

\* C1: a SELL for more than the current holding of its instrument (0 when
\* there is none) is answered 400 InsufficientHoldings with available = the
\* holding and requested = the quantity asked, and the order store, the
\* trade ledger and the portfolio stay as they were.
C1_OversellRejected ==
    [][LoopFree =>
         \A t \in Tasks, req \in Requests :
            ( /\ req.orderType = "SELL"
              /\ InstrumentFound(get_instrument(req.symbol, req.exchange))
              /\ req.quantity > HoldingOf(req)
              /\ Submit(t, req) )
            => /\ response'.status = 400
               /\ response'.error = "InsufficientHoldingError"
               /\ response'.available = HoldingOf(req)
               /\ response'.requested = req.quantity
               /\ UNCHANGED stores]_vars

\* C1 witness: a SELL of MaxQty against a holding of MaxQty - 1 was refused
C1_Witness ==
    /\ response.status = 400
    /\ response.error = "InsufficientHoldingError"
    /\ response.available = MaxQty - 1
    /\ response.requested = MaxQty
    /\ Len(trades) > 0

\* C2: the execution price of every executed MARKET order lies within 0.2%
\* of the instrument's reference price.
C2_MarketPriceWithinBand ==
    \A i \in 1 .. Len(heap) :
        (heap[i].orderStyle = "MARKET" /\ heap[i].status = "EXECUTED")
        => /\ (heap[i].executedPrice - Ltp(heap[i])) * 1000 <= 2 * Ltp(heap[i])
           /\ (Ltp(heap[i]) - heap[i].executedPrice) * 1000 <= 2 * Ltp(heap[i])

\* C3: every accepted MARKET order is stored and returned with status
\* EXECUTED, whatever the random variation.
C3_MarketAlwaysExecutes ==
    /\ \A i \in 1 .. Len(heap) :
         (Done(i) /\ heap[i].orderStyle = "MARKET")
         => heap[i].status = "EXECUTED"
    /\ (response.status = 201 /\ response.order.orderStyle = "MARKET")
         => response.order.status = "EXECUTED"

\* C3 witness: a MARKET SELL was accepted and returned
C3_Witness ==
    /\ response.status = 201
    /\ response.order.orderStyle = "MARKET"
    /\ response.order.orderType = "SELL"

\* another request can be served: no coroutine is between two await points
Observable == \A t \in Tasks : tasks[t].pc \in AwaitPoints \cup {"idle"}

\* C4: whenever another request can be served, no order is in NEW, every
\* executed order has its trade in the ledger and every position equals the
\* net of its trades: no request sees a submission half applied.
C4_SubmissionAtomic ==
    Observable =>
        /\ \A i \in 1 .. Len(heap) : heap[i].status # "NEW"
        /\ Cardinality({i \in 1 .. Len(heap) : heap[i].status = "EXECUTED"})
             = Len(trades)
        /\ \A key \in instruments :
             get_portfolio_holding(portfolio, key[1], key[2])
               = NetTraded(trades, key)

\* C4 witness: a read is answered after an order executed
C4_Witness ==
    /\ Observable
    /\ response.status = 200
    /\ Len(trades) > 0
    /\ portfolio # <<>>

BelowRefLimitBuy(o) ==
    /\ o.orderStyle = "LIMIT" /\ o.orderType = "BUY"
    /\ o.price # None /\ o.price < Ltp(o)

\* C5: a LIMIT BUY with limit price below the reference price ends PLACED
\* with no execution price and no execution timestamp, and no step of its
\* request appends a trade or changes the portfolio.
C5_LowLimitBuyStaysPlaced ==
    /\ [](\A i \in 1 .. Len(heap) :
            (Done(i) /\ BelowRefLimitBuy(heap[i]))
            => /\ heap[i].status = "PLACED"
               /\ heap[i].executedPrice = None
               /\ heap[i].executedAt = None)
    /\ [][\A t \in Tasks :
            (tasks[t].pc # "idle" /\ BelowRefLimitBuy(heap[tasks[t].order]))
            => /\ UNCHANGED <<trades, portfolio>>
               /\ tasks'[t].pc = "idle"
                    => /\ response'.status = 201
                       /\ response'.order.status = "PLACED"
                       /\ response'.order.executedPrice = None]_vars

\* C5 witness: such an order was returned while a trade was on the ledger
C5_Witness ==
    /\ response.status = 201
    /\ BelowRefLimitBuy(response.order)
    /\ Len(trades) > 0

\* C6: a LIMIT BUY with limit price >= the reference price executes at a
\* price <= its limit price and <= reference price * 1.001.
C6_LimitBuyPriceCapped ==
    \A i \in 1 .. Len(heap) :
        ( /\ Done(i)
          /\ heap[i].orderStyle = "LIMIT" /\ heap[i].orderType = "BUY"
          /\ heap[i].price # None /\ heap[i].price >= Ltp(heap[i]) )
        => /\ heap[i].status = "EXECUTED"
           /\ heap[i].executedPrice <= heap[i].price
           /\ Fine(heap[i].executedPrice) <= Scaled(Ltp(heap[i]), 1001)

PricedLimitSell(o) ==
    o.orderStyle = "LIMIT" /\ o.orderType = "SELL" /\ o.price # None

\* C7: an accepted LIMIT SELL executes exactly when its limit price is <=
\* the reference price, at max(limit price, reference * 0.999) rounded to 2
\* decimals; otherwise it stays PLACED without an execution price.
C7_LimitSellRule ==
    \A i \in 1 .. Len(heap) :
        (Done(i) /\ PricedLimitSell(heap[i]))
        => /\ heap[i].status = "EXECUTED" <=> heap[i].price <= Ltp(heap[i])
           /\ heap[i].status = "EXECUTED"
                => heap[i].executedPrice \in
                     Round2(Max(Fine(heap[i].price), Scaled(Ltp(heap[i]), 999)))
           /\ heap[i].status # "EXECUTED"
                => heap[i].status = "PLACED" /\ heap[i].executedPrice = None

\* C7 witness: a LIMIT SELL executed above its limit price, at the 0.999 floor
C7_Witness ==
    \E i \in 1 .. Len(heap) :
        /\ Done(i) /\ PricedLimitSell(heap[i])
        /\ heap[i].status = "EXECUTED"
        /\ heap[i].executedPrice > heap[i].price

\* C8: once its request has returned, every stored order (and the order
\* returned) is PLACED or EXECUTED, never NEW or CANCELLED.
C8_EndsPlacedOrExecuted ==
    /\ AllIdle =>
         \A id \in DOMAIN orders :
            heap[orders[id]].status \in {"PLACED", "EXECUTED"}
    /\ response.status = 201
         => response.order.status \in {"PLACED", "EXECUTED"}

\* C8 witness: the store holds a PLACED and an EXECUTED order
C8_Witness ==
    /\ AllIdle
    /\ \E id \in DOMAIN orders : heap[orders[id]].status = "PLACED"
    /\ \E id \in DOMAIN orders : heap[orders[id]].status = "EXECUTED"

C10_NoZeroHolding ==
    \A k \in DOMAIN portfolio : portfolio[k].quantity # 0

\* C10 witness: a position was bought and sold back in full, and is gone
C10_Witness ==
    /\ AllIdle
    /\ Len(trades) = 2
    /\ trades[1].orderType = "BUY" /\ trades[2].orderType = "SELL"
    /\ trades[1].quantity = trades[2].quantity
    /\ <<trades[1].symbol, trades[1].exchange>> \notin DOMAIN portfolio

\* the order of coroutine t is an executed SELL of the whole holding, about
\* to be applied to the portfolio
SellsWholeHolding(t) ==
    /\ tasks[t].pc = "book"
    /\ heap[tasks[t].order].orderType = "SELL"
    /\ heap[tasks[t].order].quantity = HoldingOf(heap[tasks[t].order])

\* C11: when an executed SELL of exactly the held quantity is applied, the
\* instrument leaves the portfolio, the listing a portfolio read would then
\* return has no entry for it, and every listing returned shows exactly the
\* instruments the portfolio holds.
C11_SellAllRemovesHolding ==
    /\ []((response.status = 200 /\ "holdings" \in DOMAIN response)
            => DOMAIN response.holdings = DOMAIN portfolio)
    /\ [][\A t \in Tasks :
            SellsWholeHolding(t)
            => LET o == heap[tasks[t].order]
               IN  /\ <<o.symbol, o.exchange>> \notin DOMAIN portfolio'
                   /\ <<o.symbol, o.exchange>>
                        \notin DOMAIN RefreshValues(portfolio')]_vars

\* C11 witness: after a BUY and a SELL of the same quantity a portfolio read
\* returns an empty listing
C11_Witness ==
    /\ response.status = 200 /\ "holdings" \in DOMAIN response
    /\ response.holdings = <<>>
    /\ Len(trades) = 2
    /\ trades[1].orderType = "BUY" /\ trades[2].orderType = "SELL"
    /\ trades[1].quantity = trades[2].quantity

\* C12: the weighted-average cost of every holding in the portfolio is
\* strictly positive.
C12_AverageCostPositive ==
    \A k \in DOMAIN portfolio :
        /\ portfolio[k].averagePrice.den > 0
        /\ portfolio[k].averagePrice.num > 0

\* the signed quantity and the price with which coroutine t applies its
\* executed order to the portfolio
SignedQuantity(o) ==
    IF o.orderType = "BUY" THEN o.quantity ELSE 0 - o.quantity

\* a holding's average cost is the price p
AverageIs(holding, p) ==
    holding.averagePrice.num = p * holding.averagePrice.den

\* the ledger pf2 holds for key the quantity of pf plus q, at the blended
\* average (old quantity * old average + q * p) / new quantity: the new
\* quantity times the new average is exactly the blended cost
Blended(pf, pf2, key, q, p) ==
    /\ key \in DOMAIN pf2
    /\ pf2[key].quantity = pf[key].quantity + q
    /\ pf2[key].averagePrice.den > 0
    /\ ((pf2[key].quantity % pf2[key].averagePrice.den)
           * pf2[key].averagePrice.num) % pf2[key].averagePrice.den = 0
    /\ HoldingCost(pf2[key]) = HoldingCost(pf[key]) + q * p

\* the ledger pf2 holds for key the quantity of pf plus q, at average 0
ZeroAverage(pf, pf2, key, q) ==
    /\ key \in DOMAIN pf2
    /\ pf2[key].quantity = pf[key].quantity + q
    /\ pf2[key].averagePrice.num = 0

\* C13 as claimed: every fill of an existing holding that leaves a quantity
\* other than 0 stores the new quantity and the blended average cost.
C13_BlendedAverageStored ==
    [][LET key == <<"RELIANCE", "NSE">>
       IN  \A q \in FillQuantities, p \in FillPrices :
             ( /\ key \in DOMAIN portfolio
               /\ portfolio[key].quantity + q # 0
               /\ ApplyFill("RELIANCE", "NSE", q, p) )
             => Blended(portfolio, portfolio', key, q, p)]_vars

\* C13 amended: a fill of an existing holding (a direct call, or the fill of
\* an executed order) that leaves a quantity above 0 stores the new quantity
\* and the blended average cost; one that leaves a quantity below 0 stores
\* the new quantity and the average cost 0.
C13_BlendedAverageWhilePositive ==
    [][LET key == <<"RELIANCE", "NSE">>
       IN  /\ \A q \in FillQuantities, p \in FillPrices :
                ( /\ key \in DOMAIN portfolio
                  /\ ApplyFill("RELIANCE", "NSE", q, p) )
                => /\ portfolio[key].quantity + q > 0
                        => Blended(portfolio, portfolio', key, q, p)
                   /\ portfolio[key].quantity + q < 0
                        => ZeroAverage(portfolio, portfolio', key, q)
           /\ \A t \in Tasks :
                ( /\ tasks[t].pc = "book"
                  /\ key \in DOMAIN portfolio
                  /\ portfolio[key].quantity
                       + SignedQuantity(heap[tasks[t].order]) > 0 )
                => Blended(portfolio, portfolio', key,
                           SignedQuantity(heap[tasks[t].order]),
                           heap[tasks[t].order].executedPrice)]_vars

\* C13 witness: a partial decrease was blended in with its negative term
\* (6 bought low, 5 sold high: the average of the remaining 1 is negative)
C13_Witness ==
    /\ heap = <<>>
    /\ <<"RELIANCE", "NSE">> \in DOMAIN portfolio
    /\ portfolio[<<"RELIANCE", "NSE">>].quantity = 1
    /\ portfolio[<<"RELIANCE", "NSE">>].averagePrice.num < 0

\* the order of coroutine t is a BUY for an instrument without a holding
BuysWithoutHolding(t) ==
    /\ tasks[t].pc # "idle"
    /\ heap[tasks[t].order].orderType = "BUY"
    /\ <<heap[tasks[t].order].symbol, heap[tasks[t].order].exchange>>
         \notin DOMAIN portfolio

\* C14: with no holding for the instrument, a fill creates one only for a
\* positive signed quantity, with that quantity and the fill price as
\* average cost, and leaves the ledger as it was for a zero or negative one;
\* and a BUY request for an instrument without a holding appends, when it
\* executes, exactly one trade and then creates a holding with the order's
\* quantity and the order's execution price as average cost.
C14_NewHoldingOnlyForPositiveFill ==
    [][LET key == <<"RELIANCE", "NSE">>
       IN  /\ \A q \in FillQuantities, p \in FillPrices :
                ( /\ key \notin DOMAIN portfolio
                  /\ ApplyFill("RELIANCE", "NSE", q, p) )
                => IF q > 0
                   THEN /\ DOMAIN portfolio' = DOMAIN portfolio \cup {key}
                        /\ portfolio'[key].quantity = q
                        /\ AverageIs(portfolio'[key], p)
                   ELSE portfolio' = portfolio
           /\ \A t \in Tasks :
                BuysWithoutHolding(t)
                => LET o == heap[tasks[t].order]
                       k == <<o.symbol, o.exchange>>
                   IN  /\ tasks[t].pc \in {"place", "execute"}
                         => UNCHANGED <<trades, portfolio>>
                       /\ tasks[t].pc = "settle"
                         => /\ UNCHANGED portfolio
                            /\ trades' = IF o.status = "EXECUTED"
                                         THEN Append(trades, Trade(o))
                                         ELSE trades
                       /\ tasks[t].pc = "book"
                         => /\ UNCHANGED trades
                            /\ DOMAIN portfolio' = DOMAIN portfolio \cup {k}
                            /\ portfolio'[k].quantity = o.quantity
                            /\ AverageIs(portfolio'[k], o.executedPrice)]_vars

\* C14 witness: a MARKET BUY on the empty ledger executed; one trade, and a
\* holding with its quantity at its execution price
C14_Witness ==
    /\ AllIdle
    /\ Len(heap) = 1 /\ Len(trades) = 1
    /\ heap[1].status = "EXECUTED"
    /\ DOMAIN portfolio = {<<"RELIANCE", "NSE">>}
    /\ portfolio[<<"RELIANCE", "NSE">>].quantity = heap[1].quantity
    /\ AverageIs(portfolio[<<"RELIANCE", "NSE">>], heap[1].executedPrice)

\* the place of a trade in the ledger, in insertion order
Position(tr) == CHOOSE k \in 1 .. Len(trades) : trades[k] = tr

\* C15: a trade listing holds every recorded trade once, ordered by
\* execution timestamp descending, and trades with equal timestamps stand in
\* their insertion order, whatever order the trades were inserted in.
C15_ListingSortedStable ==
    (response.status = 200 /\ "trades" \in DOMAIN response)
    => LET listing == response.trades
       IN  /\ Len(listing) = Len(trades)
           /\ \A k \in 1 .. Len(trades) :
                Cardinality({j \in 1 .. Len(listing) : listing[j] = trades[k]})
                  = 1
           /\ \A i, j \in 1 .. Len(listing) :
                i < j =>
                  /\ listing[i].executedAt >= listing[j].executedAt
                  /\ listing[i].executedAt = listing[j].executedAt
                       => Position(listing[i]) < Position(listing[j])

\* C15 witness: a listing of a ledger inserted out of order, with a tie
C15_Witness ==
    /\ response.status = 200 /\ "trades" \in DOMAIN response
    /\ Len(trades) >= 3
    /\ trades[1].executedAt < trades[2].executedAt
    /\ trades[2].executedAt = trades[3].executedAt
    /\ response.trades # trades

\* the request lacks a positive quantity, or is a LIMIT request without a
\* positive price
Malformed(req) ==
    \/ req.quantity <= 0
    \/ req.orderStyle = "LIMIT" /\ (req.price = None \/ req.price <= 0)

\* C16: a request with a non-positive quantity, or a LIMIT request without a
\* positive price, is answered with a validation error and leaves the order
\* store, the trade ledger and the portfolio as they were.
C16_MalformedRequestRejected ==
    [][LoopFree =>
         \A t \in Tasks, req \in Requests \cup InvalidRequests :
            (Malformed(req) /\ (RejectInvalid(t, req) \/ Submit(t, req)))
            => /\ response'.status = 422
               /\ UNCHANGED stores]_vars

\* C17: every stored order has a quantity above 0, a positive limit price
\* when its style is LIMIT and no limit price when its style is MARKET.
C17_LimitPriceIffLimitStyle ==
    \A id \in DOMAIN orders :
        LET o == heap[orders[id]]
        IN  /\ o.quantity > 0
            /\ o.orderStyle = "LIMIT" => (o.price # None /\ o.price > 0)
            /\ o.orderStyle = "MARKET" => o.price = None

\* C18: a stored order has an execution timestamp exactly when its status
\* is EXECUTED, and an execution price exactly when its status is EXECUTED;
\* a PLACED order has neither.  (Stored orders in every state, the one of a
\* request in progress included.)
C18_ExecutionFieldsIffExecuted ==
    \A id \in DOMAIN orders :
        LET o == heap[orders[id]]
        IN  /\ o.executedAt # None <=> o.status = "EXECUTED"
            /\ o.executedPrice # None <=> o.status = "EXECUTED"
            /\ o.status = "PLACED"
                 => (o.executedAt = None /\ o.executedPrice = None)

\* C18 witness: the store holds an executed order with both fields and a
\* PLACED order with neither
C18_Witness ==
    /\ AllIdle
    /\ \E id \in DOMAIN orders :
         /\ heap[orders[id]].status = "EXECUTED"
         /\ heap[orders[id]].executedAt # None
         /\ heap[orders[id]].executedPrice # None
    /\ \E id \in DOMAIN orders :
         /\ heap[orders[id]].status = "PLACED"
         /\ heap[orders[id]].executedAt = None
         /\ heap[orders[id]].executedPrice = None

\* C19: a request for a (symbol, exchange) the catalog does not hold is
\* answered 404 InstrumentNotFound and leaves the order store, the trade
\* ledger and the portfolio as they were.
C19_UnknownInstrumentRejected ==
    [][LoopFree =>
         \A t \in Tasks, req \in Requests :
            (<<req.symbol, req.exchange>> \notin instruments /\ Submit(t, req))
            => /\ response'.status = 404
               /\ response'.error = "InstrumentNotFoundError"
               /\ response'.symbol = req.symbol
               /\ response'.exchange = req.exchange
               /\ UNCHANGED stores]_vars

\* C19 witness: RELIANCE is held on NSE and a request for RELIANCE on BSE
\* was refused
C19_Witness ==
    /\ response.status = 404
    /\ response.error = "InstrumentNotFoundError"
    /\ response.symbol = "RELIANCE" /\ response.exchange = "BSE"
    /\ <<"RELIANCE", "NSE">> \in DOMAIN portfolio

\* C20: every order ever created is retrievable under the identifier given
\* to its submitter: the store holds as many orders as were accepted and
\* maps each order's identifier to that order.
C20_NoOrderLost ==
    /\ Cardinality(DOMAIN orders) = Len(heap)
    /\ \A i \in 1 .. Len(heap) :
         /\ heap[i].orderId \in DOMAIN orders
         /\ orders[heap[i].orderId] = i

\* holdings h and g agree on quantity and average cost
SamePosition(h, g) ==
    /\ h.quantity = g.quantity
    /\ h.averagePrice = g.averagePrice

\* C21: a portfolio read, and every step other than the application of an
\* executed order, leaves the set of holdings and each holding's quantity
\* and average cost as they were, so two reads without an order in between
\* return the same; and every listing returned shows the ledger's quantity
\* and average cost with market value = quantity * the catalog's price.
C21_PortfolioReadIdempotent ==
    /\ []((response.status = 200 /\ "holdings" \in DOMAIN response)
            => /\ DOMAIN response.holdings = DOMAIN portfolio
               /\ \A k \in DOMAIN response.holdings :
                    /\ SamePosition(response.holdings[k], portfolio[k])
                    /\ response.holdings[k].currentValue
                         = response.holdings[k].quantity
                             * lastTradedPrice[k[1]])
    /\ [][(\A t \in Tasks : tasks[t].pc # "book")
            => /\ DOMAIN portfolio' = DOMAIN portfolio
               /\ \A k \in DOMAIN portfolio :
                    SamePosition(portfolio'[k], portfolio[k])]_vars

\* C21 witness: a read returns a holding bought away from the reference
\* price (average cost and market price differ)
C21_Witness ==
    /\ response.status = 200 /\ "holdings" \in DOMAIN response
    /\ \E k \in DOMAIN response.holdings :
         /\ response.holdings[k].quantity = MaxQty
         /\ ~AverageIs(response.holdings[k], lastTradedPrice[k[1]])

\* identifiers under which an order was created
CreatedIds == { heap[i].orderId : i \in 1 .. Len(heap) }

\* C22: GET order by id answers 200 with the order the store holds under the
\* identifier, in its current status, for every identifier an order was
\* created under, and 404 not-found for any other identifier; either way the
\* order store, the trade ledger and the portfolio stay as they were.
C22_GetOrderById ==
    [][\A order_id \in NewOrderIds :
         GetOrderStatus(order_id)
         => /\ UNCHANGED stores
            /\ IF order_id \in CreatedIds
               THEN /\ response'.status = 200
                    /\ response'.order.orderId = order_id
                    /\ response'.order = heap[orders[order_id]]
               ELSE /\ response'.status = 404
                    /\ response'.error = "OrderNotFoundError"]_vars

\* C22 witness: with two orders stored, the PLACED one was fetched
C22_Witness ==
    /\ response.status = 200 /\ "order" \in DOMAIN response
    /\ response.order.status = "PLACED"
    /\ Cardinality(DOMAIN orders) = 2
    /\ \E id \in DOMAIN orders : heap[orders[id]].status = "EXECUTED"

\* C23: a request without an Authorization header, or with one other than
\* "Bearer " and the static token, is answered 401 and leaves the order
\* store, the trade ledger and the portfolio as they were, whatever its
\* body; no coroutine of it enters the handler.
C23_UnauthorizedRejected ==
    [][\A authorization \in Headers :
         authorization # BearerToken
         => /\ \A t \in Tasks, req \in AuthRequests \cup InvalidRequests :
                 PostOrder(t, authorization, req)
                 => /\ response'.status = 401
                    /\ UNCHANGED <<stores, tasks>>
            /\ GetWithHeader(authorization)
                 => /\ response'.status = 401
                    /\ UNCHANGED <<stores, tasks>>]_vars

\* C23 witness: a 401 was answered while the stores hold an order, a trade
\* and a holding of authorized requests
C23_Witness ==
    /\ response.status = 401
    /\ Len(heap) > 0 /\ Len(trades) > 0 /\ portfolio # <<>>

\* C24: once every submission has returned, the holding of each instrument
\* (0 when the portfolio has none) equals the BUY quantities minus the SELL
\* quantities of its trades.
C24_PositionConservation ==
    AllIdle =>
        \A key \in instruments \cup DOMAIN portfolio :
            get_portfolio_holding(portfolio, key[1], key[2])
              = NetTraded(trades, key)

\* C24 witness: a BUY of MaxQty and a SELL of MaxQty - 1 leave a holding of 1
C24_Witness ==
    /\ AllIdle
    /\ Len(trades) = 2
    /\ trades[1].orderType = "BUY" /\ trades[1].quantity = MaxQty
    /\ trades[2].orderType = "SELL" /\ trades[2].quantity = MaxQty - 1
    /\ get_portfolio_holding(portfolio, "RELIANCE", "NSE") = 1

\* the trades that carry the identifier id
TradesOf(id) == { k \in 1 .. Len(trades) : trades[k].orderId = id }

\* C25: once every request has returned, every EXECUTED order in the store
\* has exactly one trade carrying its identifier, and that trade has the
\* order's symbol, exchange, side, quantity, execution price and timestamp;
\* every PLACED order has no trade; every trade carries the identifier of
\* an EXECUTED order in the store.
C25_OrdersAndTradesOneToOne ==
    AllIdle =>
        /\ \A id \in DOMAIN orders :
             LET o == heap[orders[id]]
             IN  /\ o.status = "EXECUTED"
                      => /\ Cardinality(TradesOf(id)) = 1
                         /\ \A k \in TradesOf(id) : trades[k] = Trade(o)
                 /\ o.status = "PLACED" => TradesOf(id) = {}
        /\ \A k \in 1 .. Len(trades) :
             /\ trades[k].orderId \in DOMAIN orders
             /\ heap[orders[trades[k].orderId]].status = "EXECUTED"

\* the coroutines whose SELL order passed the holdings check for key and is
\* not yet applied to the portfolio
PendingSells(key) ==
    { t \in Tasks :
        /\ tasks[t].pc # "idle"
        /\ heap[tasks[t].order].orderType = "SELL"
        /\ <<heap[tasks[t].order].symbol, heap[tasks[t].order].exchange>>
             = key }

RECURSIVE PendingQuantity(_)
PendingQuantity(ts) ==
    IF ts = {} THEN 0
    ELSE LET t == CHOOSE u \in ts : TRUE
         IN  heap[tasks[t].order].quantity + PendingQuantity(ts \ {t})

\* C26: the SELL orders that passed the holdings check and are not yet
\* applied never add up to more than the holding of their instrument, and
\* no holding has a negative quantity.
C26_NoOversell ==
    /\ \A key \in instruments :
         PendingQuantity(PendingSells(key))
           <= get_portfolio_holding(portfolio, key[1], key[2])
    /\ \A k \in DOMAIN portfolio : portfolio[k].quantity >= 0

\* C26 witness: of two SELLs of MaxQty - 1 against a holding of MaxQty the
\* first executed and the second was refused with 1 available
C26_Witness ==
    /\ response.status = 400
    /\ response.error = "InsufficientHoldingError"
    /\ response.available = 1 /\ response.requested = MaxQty - 1
    /\ Len(trades) = 1 /\ trades[1].orderType = "SELL"

\* C27: the call of the execution engine leaves the order store (the orders
\* it holds, their status included), the trade ledger and the portfolio as
\* they were; the stored order changes only in the update that follows.
C27_EngineSideEffectFree ==
    [][\A t \in Tasks :
         tasks[t].pc = "execute"
         => /\ UNCHANGED <<trades, portfolio>>
            /\ DOMAIN orders' = DOMAIN orders
            /\ \A id \in DOMAIN orders :
                 /\ heap'[orders'[id]].status = heap[orders[id]].status
                 /\ heap'[orders'[id]] = heap[orders[id]]]_vars

\* C28: a SELL request for a (symbol, exchange) the catalog does not hold is
\* answered InstrumentNotFound, never InsufficientHoldings, whatever the
\* portfolio holds, and neither failure creates an order.
C28_LookupBeforeHoldingsCheck ==
    [][LoopFree =>
         \A t \in Tasks, req \in Requests :
            (req.orderType = "SELL" /\ Submit(t, req))
            => /\ <<req.symbol, req.exchange>> \notin instruments
                    => /\ response'.error = "InstrumentNotFoundError"
                       /\ response'.status = 404
               /\ response'.error
                    \in {"InstrumentNotFoundError", "InsufficientHoldingError"}
                    => UNCHANGED <<heap, orders>>]_vars

\* C28 witness: with nothing held, so that both checks would fail, a SELL on
\* an exchange the catalog lacks was answered instrument-not-found
C28_Witness ==
    /\ response.status = 404
    /\ response.error = "InstrumentNotFoundError"
    /\ response.exchange = "BSE"
    /\ portfolio = <<>>

\* the order (by reference) of the submission that takes the step, when one
\* does: the order of the coroutine in flight before or after the step
Submitting(ref) ==
    \E t \in Tasks :
        \/ tasks[t].pc # "idle" /\ tasks[t].order = ref
        \/ tasks'[t].pc # "idle" /\ tasks'[t].order = ref

\* C29: a step of the submission of an order for instrument X leaves every
\* holding of another instrument as it was, keeps every trade already on the
\* ledger in its place and unchanged, and leaves every other order the
\* store holds stored under its identifier and unchanged.  (The catalog is
\* written by no handler.)
C29_SubmissionFrame ==
    [][\A ref \in 1 .. Len(heap') :
         Submitting(ref)
         => LET X == <<heap'[ref].symbol, heap'[ref].exchange>>
            IN  /\ DOMAIN portfolio' \ {X} = DOMAIN portfolio \ {X}
                /\ \A k \in DOMAIN portfolio \ {X} :
                     portfolio'[k] = portfolio[k]
                /\ Len(trades') >= Len(trades)
                /\ SubSeq(trades', 1, Len(trades)) = trades
                /\ \A id \in DOMAIN orders :
                     orders[id] # ref
                     => /\ id \in DOMAIN orders'
                        /\ orders'[id] = orders[id]
                        /\ heap'[orders[id]] = heap[orders[id]]]_vars

====
